---- MODULE Spec2Model ----
(***************************************************************************)
(* envctl: the session-aware load / unload / switch controller.            *)
(*                                                                         *)
(* A CLI invocation (the generator) reads the profile store and the        *)
(* calling session's backup file and prints a shell script; the calling    *)
(* shell evaluates the script, and only that evaluation changes the        *)
(* environment and the session's backup file.                              *)
(*                                                                         *)
(* Text is modelled as a sequence of tokens.  A token is either one of the *)
(* characters the code gives a meaning to ("=", newline, blank, quotes) or *)
(* an indivisible piece of text that contains none of them.                *)
(***************************************************************************)
EXTENDS Integers, Sequences, FiniteSets, TLC

VARIABLES profiles, files, env, alive, out, hist, edits

vars == <<profiles, files, env, alive, out, hist, edits>>

-----------------------------------------------------------------------------
(* Bounds of the model *)

\* store mutations (create / add / import / remove / delete) in one behaviour
MaxEdits == 1

\* scripts the shells evaluate in one behaviour, all sessions together
MaxEvals == 2

-----------------------------------------------------------------------------
(* The finite universe *)

\* session ids "<shell pid>-<SHLVL>-<terminal tag>", one per shell
Sessions == {"101-1-xterm", "102-1-xterm"}

\* profile names; createProfile accepts every string, "unknown" included
Names == {"dev", "prod", "unknown"}

Keys == {"K1", "K2"}

\* the variables a session id is computed from
TermKeys == {"SHLVL", "TERM_PROGRAM", "SSH_TTY", "TERM"}

NL == "\n"
EQ == "="
HY == "-"
MARKER == "# envctl-profile:"

\* the result of getCurrentlyLoadedProfile when there is no backup file
NULL == "<null>"
UNKNOWN == "unknown"

\* the profile the store commands are run on
EditNames == {"prod"}

\* values a profile edit may store
NewValue == <<"z">>

-----------------------------------------------------------------------------
(* Text helpers *)

RECURSIVE SplitLines(_)
\* String.split('\n'), and what a line-oriented tool sees of a text
SplitLines(str) ==
  IF \A i \in 1..Len(str) : str[i] # NL
    THEN <<str>>
    ELSE LET i == CHOOSE j \in 1..Len(str) :
                    str[j] = NL /\ \A h \in 1..(j-1) : str[h] # NL
         IN  <<SubSeq(str, 1, i-1)>> \o SplitLines(SubSeq(str, i+1, Len(str)))

RECURSIVE JoinLines(_)
JoinLines(lines) ==
  IF Len(lines) = 0 THEN <<>>
  ELSE IF Len(lines) = 1 THEN lines[1]
  ELSE lines[1] \o <<NL>> \o JoinLines(Tail(lines))

RECURSIVE StripTrailingNL(_)
\* command substitution $(...) drops every trailing newline
StripTrailingNL(str) ==
  IF Len(str) > 0 /\ str[Len(str)] = NL
    THEN StripTrailingNL(SubSeq(str, 1, Len(str)-1))
    ELSE str

IsBlank(t) == t \in {" ", NL}

RECURSIVE Trim(_)
\* String.trim()
Trim(str) ==
  IF Len(str) > 0 /\ IsBlank(str[1]) THEN Trim(Tail(str))
  ELSE IF Len(str) > 0 /\ IsBlank(str[Len(str)]) THEN Trim(SubSeq(str, 1, Len(str)-1))
  ELSE str

\* the text of a token sequence that holds one token, "" for the empty text
TextOf(str) == IF Len(str) = 0 THEN "" ELSE str[1]

\* JavaScript truthiness of string | null
Falsy(x) == x \in {NULL, ""}

-----------------------------------------------------------------------------
(* Profiles: Record<string,string> keeps insertion order *)

NoProfile == [exists |-> FALSE, vars |-> <<>>]

VarKeys(vs) == {vs[i].key : i \in 1..Len(vs)}

ValueOf(vs, k) == vs[CHOOSE i \in 1..Len(vs) : vs[i].key = k].value

\* profile.variables[key] = value
SetVar_KeepFirst(vs, k, v) ==
  IF k \in VarKeys(vs) THEN vs ELSE Append(vs, [key |-> k, value |-> v])

SetVar(vs, k, v) ==
  IF k \in VarKeys(vs)
    THEN [i \in 1..Len(vs) |-> IF vs[i].key = k THEN [key |-> k, value |-> v] ELSE vs[i]]
    ELSE Append(vs, [key |-> k, value |-> v])

\* delete profile.variables[key]
DelVar(vs, k) == SelectSeq(vs, LAMBDA e : e.key # k)

RECURSIVE AssignAll(_, _)
\* Object.assign(profile.variables, variables)
AssignAll(vs, more) ==
  IF Len(more) = 0 THEN vs
  ELSE AssignAll(SetVar(vs, more[1].key, more[1].value), Tail(more))

-----------------------------------------------------------------------------
(* Backup files: ~/.envctl/backup-<sessionId>.env *)

\* a file is its lines (each ended by a newline) and whether its mtime is
\* at least the grace window of five minutes in the past
NoFile == [exists |-> FALSE, lines |-> <<>>, old |-> FALSE]

FreshFile(lines) == [exists |-> TRUE, lines |-> lines, old |-> FALSE]

MarkerLine(name) == <<MARKER, name>>

\* the session id as the parts the code joins: pid, "-", SHLVL, "-", tag
SessionTokens(s) ==
  IF s = "101-1-xterm" THEN <<"101", HY, "1", HY, "xterm">>
                       ELSE <<"102", HY, "1", HY, "xterm">>

\* parseInt(sessionId.split('-')[0]): the pid of the shell of session s
ShellPid(s) == SessionTokens(s)[1]

\* the backup file whose name carries the id made of these parts
IdName(tokens) == CHOOSE x \in Sessions : SessionTokens(x) = tokens

\* process.env.X is truthy: set and not empty
Truthy(e, k) == k \in DOMAIN e /\ Len(e[k]) > 0

\* process.env.SHLVL || '1'
Shlvl(e) == IF Truthy(e, "SHLVL") THEN e["SHLVL"] ELSE <<"1">>

\* TERM.split('-')[0]
SplitFirst(str) ==
  IF \A i \in 1..Len(str) : str[i] # HY THEN str
  ELSE SubSeq(str, 1, (CHOOSE j \in 1..Len(str) :
                         str[j] = HY /\ \A h \in 1..(j-1) : str[h] # HY) - 1)

\* a terminal context that looks at the terminal type first
TerminalContext_TermFirst(e) ==
  IF Truthy(e, "TERM") THEN <<HY>> \o SplitFirst(e["TERM"])
  ELSE IF Truthy(e, "TERM_PROGRAM") THEN <<HY>> \o e["TERM_PROGRAM"]
  ELSE IF Truthy(e, "SSH_TTY") THEN <<HY, "ssh">>
  ELSE IF Shlvl(e) = <<"2">> THEN <<HY, "dumb">>
  ELSE <<>>

\* the terminal context the generator appends to the id
TerminalContext(e) ==
  IF Truthy(e, "TERM_PROGRAM") THEN <<HY>> \o e["TERM_PROGRAM"]
  ELSE IF Truthy(e, "SSH_TTY") THEN <<HY, "ssh">>
  ELSE IF Truthy(e, "TERM") THEN <<HY>> \o SplitFirst(e["TERM"])
  ELSE IF Shlvl(e) = <<"2">> THEN <<HY, "dumb">>
  ELSE <<>>

\* the id the generator computes from its parent pid and its environment
SessionIdOf(pid, e) == <<pid, HY>> \o Shlvl(e) \o TerminalContext(e)

\* [ -n "${X}" ]
NonEmpty(e, k) == k \in DOMAIN e /\ Len(e[k]) > 0

\* ${SHLVL:-1}
ShlvlOrOne(e) == IF NonEmpty(e, "SHLVL") THEN e["SHLVL"] ELSE <<"1">>

RECURSIVE Collapse(_)
Collapse(str) ==
  IF Len(str) <= 1 THEN str
  ELSE IF IsBlank(str[1]) /\ IsBlank(str[2]) THEN Collapse(Tail(str))
  ELSE <<IF IsBlank(str[1]) THEN " " ELSE str[1]>> \o Collapse(Tail(str))

\* echo ${TERM}: the unquoted expansion is split into words and echo joins
\* the words with one blank
EchoUnquoted(str) == Collapse(Trim(str))

RECURSIVE CutFirst(_)
\* cut -d'-' -f1 of every line
CutFirst(lines) ==
  IF Len(lines) = 0 THEN <<>>
  ELSE <<SplitFirst(lines[1])>> \o CutFirst(Tail(lines))

\* $(echo ${TERM} | cut -d'-' -f1)
TermType(e) == StripTrailingNL(JoinLines(CutFirst(SplitLines(EchoUnquoted(e["TERM"])))))

\* the id in the path the emitted shell expression resolves to in a shell
\* with pid $$ and environment e
ShellBackupId(pid, e) ==
  IF NonEmpty(e, "TERM_PROGRAM") THEN <<pid, HY>> \o ShlvlOrOne(e) \o <<HY>> \o e["TERM_PROGRAM"]
  ELSE IF NonEmpty(e, "SSH_TTY") THEN <<pid, HY>> \o ShlvlOrOne(e) \o <<HY, "ssh">>
  ELSE IF NonEmpty(e, "TERM") THEN <<pid, HY>> \o ShlvlOrOne(e) \o <<HY>> \o TermType(e)
  ELSE IF ShlvlOrOne(e) = <<"2">> THEN <<pid, HY>> \o ShlvlOrOne(e) \o <<HY, "dumb">>
  ELSE <<pid, HY>> \o ShlvlOrOne(e)

\* the id of the calling session: the generator's parent is the shell
GetSessionId(s) == IdName(SessionIdOf(ShellPid(s), env[s]))

\* one backup file for every session, as before the files were keyed by session
SessionBackupFilePath_Shared(s) == "101-1-xterm"

\* the generator's path of the calling session's backup file
SessionBackupFilePath(s) == GetSessionId(s)

\* scripts that name one backup file, whichever shell evaluates them
GetSessionBackupPath_Shared(s) == "101-1-xterm"

\* the path the emitted shell expression resolves to in the calling shell
GetSessionBackupPath(s) == IdName(ShellBackupId(ShellPid(s), env[s]))

\* process.kill(shellPid, 0) succeeds iff the shell process exists
IsSessionActive(f) == alive[f]

\* a reaper that looks at the age of a file only
CleanupOrphanedBackups_ByAge(s, F) ==
  [f \in Sessions |-> IF F[f].exists /\ F[f].old THEN NoFile ELSE F[f]]

\* a reaper without the grace window
CleanupOrphanedBackups_NoGrace(s, F) ==
  [f \in Sessions |->
     IF /\ F[f].exists
        /\ f # GetSessionId(s)
        /\ ~IsSessionActive(f)
       THEN NoFile
       ELSE F[f]]

\* one run of the reaper in session s over the directory F
CleanupOrphanedBackups(s, F) ==
  [f \in Sessions |->
     IF /\ F[f].exists
        /\ f # GetSessionId(s)
        /\ F[f].old
        /\ ~IsSessionActive(f)
       THEN NoFile
       ELSE F[f]]

\* lines[0]?.trim() of the file's content
FirstLine(f) == IF Len(f.lines) = 0 THEN <<>> ELSE Trim(f.lines[1])

HasMarker(f) == f.exists /\ Len(FirstLine(f)) > 0 /\ FirstLine(f)[1] = MARKER

\* a reading that takes the marker from any line of the file
ProfileInFile_AnyLine(s, F) ==
  LET f == F[SessionBackupFilePath(s)]
      m == {i \in 1..Len(f.lines) : Len(Trim(f.lines[i])) > 0 /\ Trim(f.lines[i])[1] = MARKER}
  IN  IF ~f.exists THEN NULL
      ELSE IF m # {} THEN TextOf(Trim(Tail(Trim(f.lines[CHOOSE i \in m : TRUE]))))
      ELSE UNKNOWN

\* the profile a directory F shows for session s, the reaper left aside
ProfileInFile(s, F) ==
  LET f == F[SessionBackupFilePath(s)]
  IN  IF ~f.exists THEN NULL
      ELSE IF HasMarker(f) THEN TextOf(Trim(Tail(FirstLine(f))))
      ELSE UNKNOWN

\* getCurrentlyLoadedProfile, read from the directory the reaper leaves
GetCurrentlyLoadedProfile(s, F) == ProfileInFile(s, CleanupOrphanedBackups(s, F))

-----------------------------------------------------------------------------
(* Emitted shell commands *)

Restore(k)     == [c |-> "restore", k |-> k,  v |-> <<>>, p |-> ""]
WriteMarker(p) == [c |-> "marker",  k |-> "", v |-> <<>>, p |-> p]
BackupKey(k)   == [c |-> "backup",  k |-> k,  v |-> <<>>, p |-> ""]
Export(k, v)   == [c |-> "export",  k |-> k,  v |-> v,    p |-> ""]
Rm             == [c |-> "rm",      k |-> "", v |-> <<>>, p |-> ""]

\* if grep -q "^K=" file; then export K="$(grep ... | cut ...)"; else unset K; fi
RestoreCommands(vs) == [i \in 1..Len(vs) |-> Restore(vs[i].key)]

\* [ -n "${K+x}" ] && echo "K=$K" >> file
BackupCommands(vs) == [i \in 1..Len(vs) |-> BackupKey(vs[i].key)]

\* export K="value"
ExportCommands(vs) == [i \in 1..Len(vs) |-> Export(vs[i].key, vs[i].value)]

\* a load fragment that exports before it backs up
GenerateLoadCommands_ExportFirst(name, vs) ==
  <<WriteMarker(name)>> \o ExportCommands(vs) \o BackupCommands(vs)

GenerateLoadCommands(name, vs) ==
  <<WriteMarker(name)>> \o BackupCommands(vs) \o ExportCommands(vs)

ReloadCurrentProfile(name, vs) ==
  RestoreCommands(vs) \o <<WriteMarker(name)>> \o BackupCommands(vs) \o ExportCommands(vs)

UnloadCommands(vs) == RestoreCommands(vs) \o <<Rm>>

\* the variables a switch restores: none for "unknown" or a missing profile
SwitchRestoreVars(cur, P) ==
  IF cur # UNKNOWN /\ cur \in Names /\ P[cur].exists THEN P[cur].vars ELSE <<>>

SwitchRestoreCommands(cur, P) == RestoreCommands(SwitchRestoreVars(cur, P))

SwitchCommands(cur, name, P) ==
  SwitchRestoreCommands(cur, P) \o <<WriteMarker(name)>>
    \o BackupCommands(P[name].vars) \o ExportCommands(P[name].vars)

-----------------------------------------------------------------------------
(* What the shell does with a script *)

SetEnv(e, k, v) == [x \in (DOMAIN e) \cup {k} |-> IF x = k THEN v ELSE e[x]]

UnsetEnv(e, k) == [x \in (DOMAIN e) \ {k} |-> e[x]]

\* grep "^K=" file
Grep(k, f) == SelectSeq(f.lines, LAMBDA l : Len(l) >= 2 /\ l[1] = k /\ l[2] = EQ)

\* cut -d'=' -f2- of every matching line, captured by $(...)
Capture(matches) ==
  StripTrailingNL(JoinLines([i \in 1..Len(matches) |-> Tail(Tail(matches[i]))]))

\* echo "K=$K" >> file
EchoAppend(f, k, v) == FreshFile(f.lines \o SplitLines(<<k, EQ>> \o v))

ExecCommand(cmd, st) ==
  CASE cmd.c = "restore" ->
         IF st.file.exists /\ Len(Grep(cmd.k, st.file)) > 0
           THEN [st EXCEPT !.env = SetEnv(st.env, cmd.k, Capture(Grep(cmd.k, st.file)))]
           ELSE [st EXCEPT !.env = UnsetEnv(st.env, cmd.k)]
    [] cmd.c = "marker" -> [st EXCEPT !.file = FreshFile(<<MarkerLine(cmd.p)>>)]
    [] cmd.c = "backup" ->
         IF cmd.k \in DOMAIN st.env
           THEN [st EXCEPT !.file = EchoAppend(st.file, cmd.k, st.env[cmd.k])]
           ELSE st
    [] cmd.c = "export" -> [st EXCEPT !.env = SetEnv(st.env, cmd.k, cmd.v)]
    [] cmd.c = "rm"     -> [st EXCEPT !.file = NoFile]

RECURSIVE ExecScript(_, _)
ExecScript(script, st) ==
  IF Len(script) = 0 THEN st
  ELSE ExecScript(Tail(script), ExecCommand(script[1], st))

-----------------------------------------------------------------------------
(* .env files *)

Quotes == {"\"", "'"}

\* value.replace(/^["']|["']$/g, '')
StripQuotes(v) ==
  LET a == IF Len(v) > 0 /\ v[1] \in Quotes THEN Tail(v) ELSE v
  IN  IF Len(a) > 0 /\ a[Len(a)] \in Quotes THEN SubSeq(a, 1, Len(a)-1) ELSE a

\* one line of parseEnvFile: the pairs it adds (none or one)
ParseEnvLine(line) ==
  LET t == Trim(line)
  IN  IF Len(t) = 0 \/ t[1] = MARKER \/ t[1] = "#" THEN <<>>
      ELSE IF \A i \in 1..Len(t) : t[i] # EQ THEN <<>>
      ELSE LET i == CHOOSE j \in 1..Len(t) : t[j] = EQ /\ \A h \in 1..(j-1) : t[h] # EQ
           IN  <<[key   |-> TextOf(Trim(SubSeq(t, 1, i-1))),
                  value |-> StripQuotes(Trim(SubSeq(t, i+1, Len(t))))]>>

RECURSIVE ParseEnvFile(_)
\* the pairs of a file in file order; a later pair of a key overrides
ParseEnvFile(lines) ==
  IF Len(lines) = 0 THEN <<>>
  ELSE AssignAll(ParseEnvLine(lines[1]), ParseEnvFile(Tail(lines)))

-----------------------------------------------------------------------------
(* Results of the generator *)

\* what status and list return; nothing for the other commands
NoReport ==
  [sessionId |-> "", profileName |-> NULL, hasCount |-> FALSE, variableCount |-> 0,
   otherSessions |-> {}, totalSessions |-> 0, list |-> <<>>]

None ==
  [op |-> "none", arg |-> "", ok |-> FALSE, err |-> "", name |-> "",
   kind |-> "", vars |-> <<>>, rvars |-> <<>>, script |-> <<>>,
   sid |-> <<>>, path |-> <<>>, report |-> NoReport, faults |-> <<>>]

\* a thrown Error: nothing is printed on stdout
Failure(op, arg, err, name) ==
  [op |-> op, arg |-> arg, ok |-> FALSE, err |-> err, name |-> name,
   kind |-> "", vars |-> <<>>, rvars |-> <<>>, script |-> <<>>,
   sid |-> <<>>, path |-> <<>>, report |-> NoReport, faults |-> <<>>]

\* a returned script; name is the profile the session had (from / profileName),
\* vs the variables it exports and rvs the variables it restores or unsets
Success(op, arg, kind, name, vs, rvs, script) ==
  [op |-> op, arg |-> arg, ok |-> TRUE, err |-> "", name |-> name,
   kind |-> kind, vars |-> vs, rvars |-> rvs, script |-> script,
   sid |-> <<>>, path |-> <<>>, report |-> NoReport, faults |-> <<>>]

Stored(P, name) == name \in Names /\ P[name].exists

\* load without the check for another loaded profile
LoadProfileResult_NoConflictCheck(s, name, P, F) ==
  IF ~Stored(P, name) THEN Failure("load", name, "ProfileNotFound", name)
  ELSE LET cur == GetCurrentlyLoadedProfile(s, F)
       IN  IF cur = name
             THEN Success("load", name, "reload", cur, P[name].vars, P[name].vars,
                          ReloadCurrentProfile(name, P[name].vars))
           ELSE Success("load", name, "load", NULL, P[name].vars, <<>>,
                        GenerateLoadCommands(name, P[name].vars))

\* load that looks at the session before it looks for the profile
LoadProfileResult_ConflictFirst(s, name, P, F) ==
  LET cur == GetCurrentlyLoadedProfile(s, F)
  IN  IF ~Falsy(cur) /\ cur # name THEN Failure("load", name, "AlreadyLoaded", cur)
      ELSE IF ~Stored(P, name) THEN Failure("load", name, "ProfileNotFound", name)
      ELSE IF cur = name
        THEN Success("load", name, "reload", cur, P[name].vars, P[name].vars,
                     ReloadCurrentProfile(name, P[name].vars))
      ELSE Success("load", name, "load", NULL, P[name].vars, <<>>,
                   GenerateLoadCommands(name, P[name].vars))

LoadProfileResult(s, name, P, F) ==
  IF ~Stored(P, name) THEN Failure("load", name, "ProfileNotFound", name)
  ELSE LET cur == GetCurrentlyLoadedProfile(s, F)
       IN  IF cur = name
             THEN Success("load", name, "reload", cur, P[name].vars, P[name].vars,
                          ReloadCurrentProfile(name, P[name].vars))
           ELSE IF ~Falsy(cur)
             THEN Failure("load", name, "AlreadyLoaded", cur)
           ELSE Success("load", name, "load", NULL, P[name].vars, <<>>,
                        GenerateLoadCommands(name, P[name].vars))

\* unload without the check for state EMPTY: it removes the file it expects
UnloadProfileResult_NoEmptyCheck(s, P, F) ==
  LET cur == GetCurrentlyLoadedProfile(s, F)
  IN  IF Falsy(cur) \/ cur = UNKNOWN
        THEN Success("unload", "", "remove", UNKNOWN, <<>>, <<>>, <<Rm>>)
      ELSE IF ~Stored(P, cur)
        THEN Failure("unload", "", "LoadedProfileNotFound", cur)
      ELSE Success("unload", "", "unload", cur, <<>>, P[cur].vars, UnloadCommands(P[cur].vars))

\* unload that treats "unknown" as the name of a stored profile
UnloadProfileResult_NoUnknownBranch(s, P, F) ==
  LET cur == GetCurrentlyLoadedProfile(s, F)
  IN  IF Falsy(cur) THEN Failure("unload", "", "NothingLoaded", "")
      ELSE IF ~Stored(P, cur)
        THEN Failure("unload", "", "LoadedProfileNotFound", cur)
      ELSE Success("unload", "", "unload", cur, <<>>, P[cur].vars, UnloadCommands(P[cur].vars))

UnloadProfileResult(s, P, F) ==
  LET cur == GetCurrentlyLoadedProfile(s, F)
  IN  IF Falsy(cur) THEN Failure("unload", "", "NothingLoaded", "")
      ELSE IF cur = UNKNOWN
        THEN Success("unload", "", "remove", UNKNOWN, <<>>, <<>>, <<Rm>>)
      ELSE IF ~Stored(P, cur)
        THEN Failure("unload", "", "LoadedProfileNotFound", cur)
      ELSE Success("unload", "", "unload", cur, <<>>, P[cur].vars, UnloadCommands(P[cur].vars))

\* switch that loads afresh over the loaded target, without the restore of
\* the reload
SwitchProfileResult_NoReload(s, name, P, F) ==
  IF ~Stored(P, name) THEN Failure("switch", name, "ProfileNotFound", name)
  ELSE LET cur == GetCurrentlyLoadedProfile(s, F)
       IN  IF Falsy(cur) \/ cur = name
             THEN Success("switch", name, "load", NULL, P[name].vars, <<>>,
                          GenerateLoadCommands(name, P[name].vars))
           ELSE Success("switch", name, "switch", cur, P[name].vars, SwitchRestoreVars(cur, P),
                        SwitchCommands(cur, name, P))

SwitchProfileResult(s, name, P, F) ==
  IF ~Stored(P, name) THEN Failure("switch", name, "ProfileNotFound", name)
  ELSE LET cur == GetCurrentlyLoadedProfile(s, F)
       IN  IF Falsy(cur)
             THEN Success("switch", name, "load", NULL, P[name].vars, <<>>,
                          GenerateLoadCommands(name, P[name].vars))
           ELSE IF cur = name
             THEN Success("switch", name, "reload", cur, P[name].vars, P[name].vars,
                          ReloadCurrentProfile(name, P[name].vars))
           ELSE Success("switch", name, "switch", cur, P[name].vars, SwitchRestoreVars(cur, P),
                        SwitchCommands(cur, name, P))

-----------------------------------------------------------------------------
(* Results of the profile commands: [ok, err, store] *)

Kept(P, err) == [ok |-> FALSE, err |-> err, store |-> P]

Saved(P, name, vs) ==
  [ok |-> TRUE, err |-> "", store |-> [P EXCEPT ![name] = [exists |-> TRUE, vars |-> vs]]]

CreateProfileResult(name, P) ==
  IF P[name].exists THEN Kept(P, "ProfileAlreadyExists") ELSE Saved(P, name, <<>>)

AddVariableResult(name, k, v, P) ==
  IF ~P[name].exists THEN Kept(P, "ProfileNotFound")
  ELSE Saved(P, name, SetVar(P[name].vars, k, v))

AddVariablesFromFileResult(name, lines, P) ==
  IF ~P[name].exists THEN Kept(P, "ProfileNotFound")
  ELSE Saved(P, name, AssignAll(P[name].vars, ParseEnvFile(lines)))

\* keyvalue.includes('='), and a key before the first '='
ValidPair(kv) == (\E i \in 1..Len(kv) : kv[i] = EQ) /\ kv[1] # EQ

\* const [key, ...valueParts] = keyvalue.split('='); value = valueParts.join('=')
SplitPair(kv) ==
  LET i == CHOOSE j \in 1..Len(kv) : kv[j] = EQ /\ \A h \in 1..(j-1) : kv[h] # EQ
  IN  [key |-> TextOf(SubSeq(kv, 1, i-1)), value |-> SubSeq(kv, i+1, Len(kv))]

\* the pairs of the command line, in the order given
PairsOf(keyvalues) == [i \in 1..Len(keyvalues) |-> SplitPair(keyvalues[i])]

RECURSIVE AddEach(_, _, _)
\* for (const [key, value] of Object.entries(processedVars)) addVariable(...)
AddEach(name, vs, P) ==
  IF Len(vs) = 0 THEN [ok |-> TRUE, err |-> "", store |-> P]
  ELSE LET r == AddVariableResult(name, vs[1].key, vs[1].value, P)
       IN  IF r.ok THEN AddEach(name, Tail(vs), r.store) ELSE r

\* envctl add <profile> KEY=VALUE...
AddCommandResult(name, keyvalues, P) ==
  IF \E i \in 1..Len(keyvalues) : ~ValidPair(keyvalues[i]) THEN Kept(P, "InvalidFormat")
  ELSE AddEach(name, AssignAll(<<>>, PairsOf(keyvalues)), P)

RECURSIVE LinePairs(_)
\* the pairs of the lines of a .env file, in the order given
LinePairs(lines) ==
  IF Len(lines) = 0 THEN <<>> ELSE ParseEnvLine(lines[1]) \o LinePairs(Tail(lines))

RemoveVariableResult(name, k, P) ==
  IF ~P[name].exists THEN Kept(P, "ProfileNotFound")
  ELSE IF k \notin VarKeys(P[name].vars) THEN Kept(P, "VariableNotFound")
  ELSE Saved(P, name, DelVar(P[name].vars, k))

\* a delete that takes a profile it does not find for deleted
DeleteProfileResult_Lenient(s, name, P, F) ==
  IF GetCurrentlyLoadedProfile(s, F) = name THEN Kept(P, "ProfileLoaded")
  ELSE [ok |-> TRUE, err |-> "", store |-> [P EXCEPT ![name] = NoProfile]]

DeleteProfileResult(s, name, P, F) ==
  IF GetCurrentlyLoadedProfile(s, F) = name THEN Kept(P, "ProfileLoaded")
  ELSE IF ~P[name].exists THEN Kept(P, "ProfileNotFound")
  ELSE [ok |-> TRUE, err |-> "", store |-> [P EXCEPT ![name] = NoProfile]]

-----------------------------------------------------------------------------
(* Initial states *)

Var(k, v) == [key |-> k, value |-> v]

Profile(vs) == [exists |-> TRUE, vars |-> vs]

S1 == "101-1-xterm"
S2 == "102-1-xterm"

DevVars == <<Var("K1", <<"x">>), Var("K2", <<"y">>)>>
ProdVars == <<Var("K1", <<"y">>)>>
UnknownVars == <<Var("K2", <<"x">>)>>

\* a store that create and add build; p is the profile named "prod" and u
\* the profile named "unknown"
Store(p, u) ==
  [n \in Names |->
     CASE n = "dev"  -> Profile(DevVars)
       [] n = "prod" -> p
       [] OTHER      -> u]

InitStores ==
  {Store(Profile(ProdVars), NoProfile),
   Store(Profile(ProdVars), Profile(UnknownVars)),
   Store(NoProfile, Profile(UnknownVars))}

\* environments a shell starts with; a value may span lines
\* the terminal variables of an xterm window
Xterm == [k \in {"SHLVL", "TERM"} |-> IF k = "SHLVL" THEN <<"1">> ELSE <<"xterm", HY, "256color">>]

PlainEnv == [k \in {"K2"} |-> <<"b">>] @@ Xterm
LinesEnv == [k \in {"K1"} |-> <<"a", NL, "c">>] @@ Xterm
InitEnvs == {PlainEnv, LinesEnv}

\* a backup file without a marker line, left in place for the session
LegacyFile == [exists |-> TRUE, lines |-> <<<<"K1", EQ, "old">>>>, old |-> TRUE]

\* the backup file of a terminal that was closed while prod was loaded
OrphanFile == [exists |-> TRUE, lines |-> <<MarkerLine("prod"), <<"K1", EQ, "a">>>>, old |-> TRUE]

\* a backup file that was truncated to nothing
EmptyFile == [exists |-> TRUE, lines |-> <<>>, old |-> TRUE]

\* a backup file whose marker line is not the first line
LateMarkerFile ==
  [exists |-> TRUE, lines |-> <<<<"K1", EQ, "old">>, MarkerLine("prod")>>, old |-> TRUE]

\* a backup file whose marker line was written with blanks around the name
PaddedMarkerFile ==
  [exists |-> TRUE, lines |-> <<<<" ", MARKER, " ", "prod", " ">>, <<"K1", EQ, "old">>>>, old |-> TRUE]

\* the files a session may find in place of its backup file
FoundFiles == {NoFile, LegacyFile, EmptyFile, LateMarkerFile, PaddedMarkerFile}

\* a terminal variable is unset, empty or set
UNSET == <<"<unset>">>
ShlvlValues == {UNSET, <<>>, <<"1">>, <<"2">>}
TermProgramValues == {UNSET, <<>>, <<"vscode">>}
SshTtyValues == {UNSET, <<>>, <<"/dev/pts/0">>}
TermValues == {UNSET, <<>>, <<"xterm", HY, "256color">>, <<"dumb">>, <<"xterm", " ">>}

\* the environment that gives the terminal variables these values
TermEnv(v) == [k \in {x \in TermKeys : v[x] # UNSET} |-> v[k]]

TermEnvs ==
  {TermEnv([SHLVL |-> a, TERM_PROGRAM |-> b, SSH_TTY |-> c, TERM |-> d]) :
     a \in ShlvlValues, b \in TermProgramValues, c \in SshTtyValues, d \in TermValues}

\* the text of an importable .env file
EnvFile == << <<"K1", EQ, "y">>, <<"#", "note">>, <<" ", "K1", EQ, "\"", "z", "\"">> >>

\* a second .env file: quotes, a comment, a blank line, a line without '='
EnvFile2 ==
  << <<"K2", EQ, "'", "x", "'">>, <<"K1", EQ, "y">>, <<>>, <<"K2">>,
     <<"K2", " ", EQ, " ", "z", EQ, "x">> >>

\* the arguments of an add command
KeyValueLists ==
  { << <<"K1", EQ, "x">> >>,
    << <<"K1", EQ, "x">>, <<"K2", EQ, "y">>, <<"K1", EQ, "z">> >>,
    << <<"K2", EQ, "x">>, <<"K2", EQ, "y", EQ, "z">>, <<"K2", EQ>> >>,
    << <<"K1", EQ, "x">>, <<"K2">> >>,
    << <<EQ, "x">> >>,
    << <<"MY KEY", EQ, "x">>, <<"K1;id", EQ, "y">> >> }

\* a .env file with a line without key and a line whose key holds a blank
EnvFile3 == << <<EQ, "x">>, <<"MY KEY", EQ, "y">> >>

NoHist == [ops |-> <<>>, start |-> 1, base |-> <<>>, snap |-> [env |-> <<>>, lines |-> <<>>]]

InitRest ==
  /\ out = [s \in Sessions |-> None]
  /\ hist = [s \in Sessions |-> [NoHist EXCEPT !.base = env[s]]]
  /\ edits = 0

\* two open terminals, nothing loaded
Init ==
  /\ profiles = Store(Profile(ProdVars), Profile(UnknownVars))
  /\ files = [s \in Sessions |-> NoFile]
  /\ env = [s \in Sessions |-> IF s = S1 THEN LinesEnv ELSE PlainEnv]
  /\ alive = [s \in Sessions |-> TRUE]
  /\ InitRest

\* one open terminal; the other was closed earlier and may have left its file
InitSolo ==
  /\ profiles \in InitStores
  /\ files \in {[s \in Sessions |-> IF s = S1 THEN f ELSE g] :
                  f \in FoundFiles, g \in {NoFile, OrphanFile}}
  /\ env \in {[s \in Sessions |-> IF s = S1 THEN e ELSE <<>>] : e \in InitEnvs}
  /\ alive = [s \in Sessions |-> s = S1]
  /\ InitRest

\* one open terminal of any kind, nothing loaded
InitIds ==
  /\ profiles = Store(Profile(ProdVars), NoProfile)
  /\ files = [s \in Sessions |-> NoFile]
  /\ env \in {[s \in Sessions |-> IF s = S1 THEN e ELSE <<>>] : e \in TermEnvs}
  /\ alive = [s \in Sessions |-> s = S1]
  /\ InitRest

-----------------------------------------------------------------------------
(* Commands of a session *)

\* a shell runs one command at a time; a printed script is evaluated or dropped
CanRun(s) == alive[s] /\ out[s].op = "none"

RECURSIVE Evals(_)
Evals(S) ==
  IF S = {} THEN 0
  ELSE LET s == CHOOSE x \in S : TRUE IN Len(hist[s].ops) + Evals(S \ {s})

\* a script is generated only while the budget lets it be evaluated
CanGenerate(s) ==
  CanRun(s) /\ Evals(Sessions) + Cardinality({x \in Sessions : out[x].ok}) < MaxEvals

LoadProfile(s, name) ==
  /\ CanGenerate(s)
  /\ out' = [out EXCEPT ![s] = LoadProfileResult(s, name, profiles, files)]
  /\ files' = IF Stored(profiles, name) THEN CleanupOrphanedBackups(s, files) ELSE files
  /\ UNCHANGED <<profiles, env, alive, hist, edits>>

UnloadProfile(s) ==
  /\ CanGenerate(s)
  /\ out' = [out EXCEPT ![s] = UnloadProfileResult(s, profiles, files)]
  /\ files' = CleanupOrphanedBackups(s, files)
  /\ UNCHANGED <<profiles, env, alive, hist, edits>>

SwitchProfile(s, name) ==
  /\ CanGenerate(s)
  /\ out' = [out EXCEPT ![s] = SwitchProfileResult(s, name, profiles, files)]
  /\ files' = IF Stored(profiles, name) THEN CleanupOrphanedBackups(s, files) ELSE files
  /\ UNCHANGED <<profiles, env, alive, hist, edits>>

\* eval "$(envctl ...)": the calling shell runs the printed script
Eval(s) ==
  /\ alive[s]
  /\ out[s].ok
  /\ LET path  == GetSessionBackupPath(s)
         st    == ExecScript(out[s].script, [env |-> env[s], file |-> files[path]])
         fresh == ~files[path].exists
         entry == [kind |-> out[s].kind, to |-> out[s].arg, from |-> out[s].name,
                   vars |-> out[s].vars, rvars |-> out[s].rvars]
     IN  /\ env' = [env EXCEPT ![s] = st.env]
         /\ files' = [files EXCEPT ![path] = st.file]
         /\ hist' = [hist EXCEPT ![s] =
                       [ops   |-> Append(@.ops, entry),
                        start |-> IF fresh THEN Len(@.ops) + 1 ELSE @.start,
                        base  |-> IF fresh THEN env[s] ELSE @.base,
                        snap  |-> IF fresh THEN [env |-> st.env, lines |-> st.file.lines]
                                           ELSE @.snap]]
  /\ out' = [out EXCEPT ![s] = None]
  /\ UNCHANGED <<profiles, alive, edits>>

\* the output is only looked at, or the command failed and printed no script
Discard(s) ==
  /\ alive[s]
  /\ out[s].op # "none"
  /\ out' = [out EXCEPT ![s] = None]
  /\ UNCHANGED <<profiles, files, env, alive, hist, edits>>

\* the id status reports for the session, and the path the shell gets when
\* it expands the backup path expression of a script
ResolveSession(s) ==
  /\ CanRun(s)
  /\ out' = [out EXCEPT ![s] = [None EXCEPT !.op = "session",
                                            !.sid = SessionIdOf(ShellPid(s), env[s]),
                                            !.path = ShellBackupId(ShellPid(s), env[s])]]
  /\ UNCHANGED <<profiles, files, env, alive, hist, edits>>

GetStatus(s) ==
  /\ CanRun(s)
  /\ files' = CleanupOrphanedBackups(s, files)
  /\ UNCHANGED <<profiles, env, alive, out, hist, edits>>

ListProfiles(s) ==
  /\ CanRun(s)
  /\ files' = CleanupOrphanedBackups(s, files)
  /\ UNCHANGED <<profiles, env, alive, out, hist, edits>>

DeleteProfile(s, name) ==
  /\ CanRun(s)
  /\ edits < MaxEdits
  /\ LET r == DeleteProfileResult(s, name, profiles, files)
     IN  /\ profiles' = r.store
         /\ edits' = IF r.ok THEN edits + 1 ELSE edits
  /\ files' = CleanupOrphanedBackups(s, files)
  /\ UNCHANGED <<env, alive, out, hist>>

\* the terminal is closed: the shell process and its environment are gone
Exit(s) ==
  /\ alive[s]
  /\ alive' = [alive EXCEPT ![s] = FALSE]
  /\ env' = [env EXCEPT ![s] = <<>>]
  /\ out' = [out EXCEPT ![s] = None]
  /\ UNCHANGED <<profiles, files, hist, edits>>

\* a new shell starts and gets the pid, nesting level and terminal of a
\* shell that has exited: its session id is the id of that shell; the start
\* is counted with the evaluated scripts
Start(s) ==
  /\ ~alive[s]
  /\ Evals(Sessions) < MaxEvals
  /\ alive' = [alive EXCEPT ![s] = TRUE]
  /\ \E e \in InitEnvs :
       /\ env' = [env EXCEPT ![s] = e]
       /\ hist' = [hist EXCEPT ![s] =
                     [ops   |-> Append(@.ops, [kind |-> "start", to |-> "", from |-> "",
                                               vars |-> <<>>, rvars |-> <<>>]),
                      start |-> Len(@.ops) + 2,
                      base  |-> e,
                      snap  |-> [env |-> <<>>, lines |-> <<>>]]]
  /\ UNCHANGED <<profiles, files, out, edits>>

-----------------------------------------------------------------------------
(* Operations of the backup store, called in session s *)

\* the operation returns to its caller
Returns(s, op, name, vs) ==
  out' = [out EXCEPT ![s] = [None EXCEPT !.op = op, !.name = name, !.vars = vs]]

BackupLine(v) == <<v.key, EQ>> \o v.value

GetCurrentlyLoadedProfileOp(s) ==
  /\ CanRun(s)
  /\ files' = CleanupOrphanedBackups(s, files)
  /\ Returns(s, "getCurrentlyLoadedProfile", GetCurrentlyLoadedProfile(s, files'), <<>>)
  /\ UNCHANGED <<profiles, env, alive, hist, edits>>

\* what loadBackup returns in session s over the directory F
LoadBackupResult(s, F) ==
  LET f == F[SessionBackupFilePath(s)]
  IN  IF f.exists THEN ParseEnvFile(f.lines) ELSE <<>>

LoadBackup(s) ==
  /\ CanRun(s)
  /\ Returns(s, "loadBackup", "", LoadBackupResult(s, files))
  /\ UNCHANGED <<profiles, files, env, alive, hist, edits>>

SaveBackup(s, variables) ==
  /\ CanRun(s)
  /\ LET F    == CleanupOrphanedBackups(s, files)
         path == SessionBackupFilePath(s)
     IN  files' = IF Len(variables) = 0
                    THEN [F EXCEPT ![path] = NoFile]
                    ELSE [F EXCEPT ![path] =
                            [exists |-> TRUE,
                             lines  |-> SplitLines(JoinLines([i \in 1..Len(variables) |->
                                                               BackupLine(variables[i])])),
                             old    |-> FALSE]]
  /\ Returns(s, "saveBackup", "", variables)
  /\ UNCHANGED <<profiles, env, alive, hist, edits>>

ClearBackup(s) ==
  /\ CanRun(s)
  /\ files' = [CleanupOrphanedBackups(s, files) EXCEPT ![SessionBackupFilePath(s)] = NoFile]
  /\ Returns(s, "clearBackup", "", <<>>)
  /\ UNCHANGED <<profiles, env, alive, hist, edits>>

ListActiveSessions(s) ==
  /\ CanRun(s)
  /\ files' = CleanupOrphanedBackups(s, files)
  /\ Returns(s, "listActiveSessions", "", <<>>)
  /\ UNCHANGED <<profiles, env, alive, hist, edits>>

-----------------------------------------------------------------------------
(* Queries *)

\* content.trim() is not empty
HasContent(f) == \E i \in 1..Len(f.lines) : Len(Trim(f.lines[i])) > 0

\* the profile name listActiveSessions reads from a backup file
SessionProfile(f) == IF HasMarker(f) THEN TextOf(Trim(Tail(FirstLine(f)))) ELSE UNKNOWN

\* listActiveSessions over the directory F the reaper left
ListSessions(F) ==
  {[sessionId |-> f, profileName |-> SessionProfile(F[f])] :
     f \in {x \in Sessions : F[x].exists /\ HasContent(F[x])}}

GetStatusResult(s, P, F) ==
  LET G   == CleanupOrphanedBackups(s, F)
      cur == ProfileInFile(s, G)
      all == ListSessions(G)
      id  == GetSessionId(s)
  IN  [NoReport EXCEPT
         !.sessionId = id,
         !.profileName = IF Falsy(cur) THEN NULL ELSE cur,
         !.hasCount = ~Falsy(cur) /\ cur # UNKNOWN,
         !.variableCount = IF ~Falsy(cur) /\ cur # UNKNOWN /\ Stored(P, cur)
                             THEN Len(P[cur].vars) ELSE 0,
         !.otherSessions = {x \in all : x.sessionId # id},
         !.totalSessions = Cardinality(all)]

\* the order in which readdir happens to return the profile files
DirOrder == <<"unknown", "prod", "dev">>

\* a.name.localeCompare(b.name) < 0
NameBefore(a, b) ==
  LET rank == [n \in Names |-> CASE n = "dev" -> 1 [] n = "prod" -> 2 [] OTHER -> 3]
  IN  rank[a] < rank[b]

RECURSIVE SortByName(_)
SortByName(entries) ==
  IF Len(entries) = 0 THEN <<>>
  ELSE LET m == CHOOSE i \in 1..Len(entries) :
                  \A j \in 1..Len(entries) : ~NameBefore(entries[j].name, entries[i].name)
       IN  <<entries[m]>> \o
           SortByName([i \in 1..(Len(entries) - 1) |->
                         IF i < m THEN entries[i] ELSE entries[i + 1]])

\* one entry of listProfiles; no session stands for a missing loadedInSessions
ProfileEntry(name, P, all) ==
  LET in == {x.sessionId : x \in {y \in all : y.profileName = name}}
  IN  [name |-> name, isLoaded |-> in # {}, variableCount |-> Len(P[name].vars),
       loadedInSessions |-> in]

ListProfilesResult(s, P, F) ==
  LET all   == ListSessions(CleanupOrphanedBackups(s, F))
      names == SelectSeq(DirOrder, LAMBDA n : P[n].exists)
  IN  SortByName([i \in 1..Len(names) |-> ProfileEntry(names[i], P, all)])

\* the text exportProfile returns
ExportText(vs) == JoinLines([i \in 1..Len(vs) |-> <<vs[i].key, EQ>> \o vs[i].value])

\* envctl status
StatusCommand(s) ==
  /\ CanRun(s)
  /\ files' = CleanupOrphanedBackups(s, files)
  /\ out' = [out EXCEPT ![s] = [None EXCEPT !.op = "status", !.kind = "report",
                                            !.report = GetStatusResult(s, profiles, files)]]
  /\ UNCHANGED <<profiles, env, alive, hist, edits>>

\* envctl list
ListCommand(s) ==
  /\ CanRun(s)
  /\ files' = CleanupOrphanedBackups(s, files)
  /\ out' = [out EXCEPT ![s] =
               [None EXCEPT !.op = "list", !.kind = "report",
                            !.report = [NoReport EXCEPT
                                          !.list = ListProfilesResult(s, profiles, files)]]]
  /\ UNCHANGED <<profiles, env, alive, hist, edits>>

\* an export that creates the profile it does not find
ExportProfile_Creating(s, name) ==
  /\ CanRun(s)
  /\ out' = [out EXCEPT ![s] = [None EXCEPT !.op = "export", !.arg = name, !.kind = "report"]]
  /\ profiles' = IF Stored(profiles, name) THEN profiles
                                           ELSE [profiles EXCEPT ![name] = Profile(<<>>)]
  /\ UNCHANGED <<files, env, alive, hist, edits>>

\* envctl export <profile>
ExportProfile(s, name) ==
  /\ CanRun(s)
  /\ out' = [out EXCEPT ![s] =
               IF ~Stored(profiles, name)
                 THEN Failure("export", name, "ProfileNotFound", "")
                 ELSE [None EXCEPT !.op = "export", !.arg = name, !.kind = "report",
                                   !.vars = profiles[name].vars,
                                   !.script = ExportText(profiles[name].vars)]]
  /\ UNCHANGED <<profiles, files, env, alive, hist, edits>>

\* a cleanup that lets the error of the unload through
CleanupAllDataResult_NoCatch(s, P, F) ==
  LET cur == GetCurrentlyLoadedProfile(s, F)
      r   == UnloadProfileResult(s, P, F)
  IN  IF ~Falsy(cur) /\ ~r.ok
        THEN [err |-> r.err, name |-> "", found |-> cur, store |-> P,
              files |-> CleanupOrphanedBackups(s, F)]
        ELSE [err |-> "", name |-> IF Falsy(cur) THEN "" ELSE r.name, found |-> cur,
              store |-> [n \in Names |-> NoProfile], files |-> [f \in Sessions |-> NoFile]]

\* cleanupAllData: the unload is tried and its error ignored, then the
\* configuration directory is removed with every profile and backup file
CleanupAllDataResult(s, P, F) ==
  LET cur == GetCurrentlyLoadedProfile(s, F)
      r   == UnloadProfileResult(s, P, F)
  IN  [err |-> "", name |-> IF ~Falsy(cur) /\ r.ok THEN r.name ELSE "", found |-> cur,
       store |-> [n \in Names |-> NoProfile], files |-> [f \in Sessions |-> NoFile]]

\* envctl uninstall with all data
CleanupAllData(s) ==
  /\ CanRun(s)
  /\ LET r == CleanupAllDataResult(s, profiles, files)
     IN  /\ profiles' = r.store
         /\ files' = r.files
         /\ out' = [out EXCEPT ![s] = [None EXCEPT !.op = "cleanup", !.err = r.err, !.arg = r.found,
                                                   !.name = r.name, !.kind = "report"]]
  /\ UNCHANGED <<env, alive, hist, edits>>

-----------------------------------------------------------------------------
(* Failures inside the reaper *)

\* what can go wrong in one run of the reaper: nothing, readdir of the
\* backup directory throws, stat of the file it looks at throws (the file
\* may have disappeared since the listing), or the removal of the file throws
Faults == {"none", "readdir", "stat", "remove"}

\* a reaper without the outer try / catch: the error of readdir or of the
\* removal reaches the caller
ReaperRun_NoCatch(fault, s, F) ==
  [files |-> IF fault = "none" THEN CleanupOrphanedBackups(s, F) ELSE F,
   err   |-> IF fault = "readdir" \/ (fault = "remove" /\ CleanupOrphanedBackups(s, F) # F)
               THEN "ReaperFailed" ELSE ""]

\* one run of the reaper in session s over the directory F: the directory
\* it leaves and the error it throws.  The file of the caller is skipped
\* before anything is tried on it, so the fault is met on the one other
\* file: the file is skipped (stat), or the loop is left (readdir, removal),
\* and the error is caught
ReaperRun(fault, s, F) ==
  [files |-> IF fault = "none" THEN CleanupOrphanedBackups(s, F) ELSE F,
   err   |-> ""]

\* an operation of session s that ran the reaper with these faults: it
\* throws what the reaper threw, or returns its result; G is the directory
\* it leaves
Ran(s, faults, err, G, result) ==
  /\ files' = G
  /\ out' = [out EXCEPT ![s] =
               [(IF err # "" THEN Failure(result.op, result.arg, err, "") ELSE result)
                  EXCEPT !.faults = faults]]
  /\ UNCHANGED <<profiles, env, alive, hist, edits>>

\* getCurrentlyLoadedProfile with a fault in its reaper run
GetCurrentlyLoadedProfileFaulty(s, fault) ==
  /\ CanRun(s)
  /\ LET r == ReaperRun(fault, s, files)
     IN  Ran(s, <<fault>>, r.err, r.files,
             [None EXCEPT !.op = "getCurrentlyLoadedProfile",
                          !.name = ProfileInFile(s, r.files)])

\* listActiveSessions with a fault in its reaper run
ListActiveSessionsFaulty(s, fault) ==
  /\ CanRun(s)
  /\ LET r == ReaperRun(fault, s, files)
     IN  Ran(s, <<fault>>, r.err, r.files,
             [None EXCEPT !.op = "listActiveSessions", !.kind = "report",
                          !.report = [NoReport EXCEPT !.otherSessions = ListSessions(r.files)]])

\* load: the reaper runs once, after the profile was found
LoadProfileFaulty(s, name, fault) ==
  /\ CanGenerate(s)
  /\ LET r == ReaperRun(fault, s, files)
     IN  IF Stored(profiles, name)
           THEN Ran(s, <<fault>>, r.err, r.files, LoadProfileResult(s, name, profiles, r.files))
           ELSE Ran(s, <<>>, "", files, LoadProfileResult(s, name, profiles, files))

\* unload: the reaper runs once
UnloadProfileFaulty(s, fault) ==
  /\ CanGenerate(s)
  /\ LET r == ReaperRun(fault, s, files)
     IN  Ran(s, <<fault>>, r.err, r.files, UnloadProfileResult(s, profiles, r.files))

\* switch: the reaper runs once, after the target was found
SwitchProfileFaulty(s, name, fault) ==
  /\ CanGenerate(s)
  /\ LET r == ReaperRun(fault, s, files)
     IN  IF Stored(profiles, name)
           THEN Ran(s, <<fault>>, r.err, r.files, SwitchProfileResult(s, name, profiles, r.files))
           ELSE Ran(s, <<>>, "", files, SwitchProfileResult(s, name, profiles, files))

\* the report of getStatus for the loaded profile cur and the sessions all
StatusReport(s, P, cur, all) ==
  [NoReport EXCEPT
     !.sessionId = GetSessionId(s),
     !.profileName = IF Falsy(cur) THEN NULL ELSE cur,
     !.hasCount = ~Falsy(cur) /\ cur # UNKNOWN,
     !.variableCount = IF ~Falsy(cur) /\ cur # UNKNOWN /\ Stored(P, cur)
                         THEN Len(P[cur].vars) ELSE 0,
     !.otherSessions = {x \in all : x.sessionId # GetSessionId(s)},
     !.totalSessions = Cardinality(all)]

\* status: the reaper runs in getCurrentlyLoadedProfile and once more in
\* listActiveSessions
StatusFaulty(s, first, second) ==
  /\ CanRun(s)
  /\ LET r1 == ReaperRun(first, s, files)
         r2 == ReaperRun(second, s, r1.files)
     IN  Ran(s, <<first, second>>, IF r1.err # "" THEN r1.err ELSE r2.err, r2.files,
             [None EXCEPT !.op = "status", !.kind = "report",
                          !.report = StatusReport(s, profiles, ProfileInFile(s, r1.files),
                                                  ListSessions(r2.files))])

-----------------------------------------------------------------------------
(* Commands on the profile store *)

Edit(r) ==
  /\ edits < MaxEdits
  /\ profiles' = r.store
  /\ edits' = IF r.ok THEN edits + 1 ELSE edits
  /\ UNCHANGED <<files, env, alive, out, hist>>

CreateProfile(name) == Edit(CreateProfileResult(name, profiles))

AddVariable(name, k) == Edit(AddVariableResult(name, k, NewValue, profiles))

AddVariablesFromFile(name) == Edit(AddVariablesFromFileResult(name, EnvFile, profiles))

RemoveVariable(name, k) == Edit(RemoveVariableResult(name, k, profiles))

\* the add command reports what it was given and whether it succeeded
Added(s, name, r, given) ==
  /\ profiles' = r.store
  /\ edits' = IF r.ok THEN edits + 1 ELSE edits
  /\ out' = [out EXCEPT ![s] = [None EXCEPT !.op = "add", !.arg = name, !.err = r.err,
                                            !.kind = IF r.ok THEN "added" ELSE "failed",
                                            !.vars = given]]
  /\ UNCHANGED <<files, env, alive, hist>>

\* envctl add <profile> KEY=VALUE...
Add(s, name, keyvalues) ==
  /\ CanRun(s)
  /\ edits < MaxEdits
  /\ LET r == AddCommandResult(name, keyvalues, profiles)
     IN  Added(s, name, r, IF r.err = "InvalidFormat" THEN <<>> ELSE PairsOf(keyvalues))

\* envctl add <profile> -f <path>
AddFile(s, name, lines) ==
  /\ CanRun(s)
  /\ edits < MaxEdits
  /\ Added(s, name, AddVariablesFromFileResult(name, lines, profiles), LinePairs(lines))

\* a command on the profile store reports its error, or none
Reported(s, op, name, k, r) ==
  /\ CanRun(s)
  /\ edits < MaxEdits
  /\ profiles' = r.store
  /\ edits' = IF r.ok THEN edits + 1 ELSE edits
  /\ out' = [out EXCEPT ![s] = [None EXCEPT !.op = op, !.arg = name, !.name = k,
                                            !.err = r.err,
                                            !.kind = IF r.ok THEN "done" ELSE "failed"]]
  /\ UNCHANGED <<env, alive, hist>>

\* envctl create <profile>
CreateCommand(s, name) ==
  /\ Reported(s, "create", name, "", CreateProfileResult(name, profiles))
  /\ UNCHANGED files

\* envctl remove <profile> <key>
RemoveCommand(s, name, k) ==
  /\ Reported(s, "remove", name, k, RemoveVariableResult(name, k, profiles))
  /\ UNCHANGED files

\* envctl delete <profile>
DeleteCommand(s, name) ==
  /\ Reported(s, "delete", name, "", DeleteProfileResult(s, name, profiles, files))
  /\ files' = CleanupOrphanedBackups(s, files)

-----------------------------------------------------------------------------
(* Time *)

\* the grace window passes: every backup file is now older than it
Tick ==
  /\ \E f \in Sessions : files[f].exists /\ ~files[f].old
  /\ files' = [f \in Sessions |-> IF files[f].exists THEN [files[f] EXCEPT !.old = TRUE] ELSE files[f]]
  /\ UNCHANGED <<profiles, env, alive, out, hist, edits>>

-----------------------------------------------------------------------------

Next ==
  \/ \E s \in Sessions, name \in Names : LoadProfile(s, name)
  \/ \E s \in Sessions : UnloadProfile(s)
  \/ \E s \in Sessions, name \in Names : SwitchProfile(s, name)
  \/ \E s \in Sessions : Eval(s)
  \/ \E s \in Sessions : Discard(s)
  \/ \E s \in Sessions : GetStatus(s)
  \/ \E s \in Sessions : ListProfiles(s)
  \/ \E s \in Sessions, name \in EditNames : DeleteProfile(s, name)
  \/ \E s \in Sessions : Exit(s)
  \/ \E name \in EditNames : CreateProfile(name)
  \/ \E name \in EditNames, k \in Keys : AddVariable(name, k)
  \/ \E name \in EditNames : AddVariablesFromFile(name)
  \/ \E name \in EditNames, k \in Keys : RemoveVariable(name, k)
  \/ Tick

Spec == Init /\ [][Next]_vars

\* the session id and the backup path of a terminal are looked at
NextIds ==
  \/ \E s \in Sessions : ResolveSession(s)
  \/ \E s \in Sessions : Discard(s)

SpecIds == InitIds /\ [][NextIds]_vars

SpecSolo == InitSolo /\ [][Next]_vars

\* sessions load and unload profiles and ask what is loaded
NextQuery ==
  \/ \E s \in Sessions, name \in Names : LoadProfile(s, name)
  \/ \E s \in Sessions : UnloadProfile(s)
  \/ \E s \in Sessions, name \in Names : SwitchProfile(s, name)
  \/ \E s \in Sessions : Eval(s)
  \/ \E s \in Sessions : Discard(s)
  \/ \E s \in Sessions : StatusCommand(s)
  \/ \E s \in Sessions : ListCommand(s)
  \/ \E s \in Sessions, name \in Names : ExportProfile(s, name)
  \/ \E s \in Sessions : CleanupAllData(s)
  \/ \E s \in Sessions : Exit(s)
  \/ Tick

SpecQuery == (Init \/ InitSolo) /\ [][NextQuery]_vars

\* terminals are closed and new ones opened
NextRestart ==
  \/ \E s \in Sessions, name \in Names : LoadProfile(s, name)
  \/ \E s \in Sessions : UnloadProfile(s)
  \/ \E s \in Sessions, name \in Names : SwitchProfile(s, name)
  \/ \E s \in Sessions : Eval(s)
  \/ \E s \in Sessions : Discard(s)
  \/ \E s \in Sessions : GetStatus(s)
  \/ \E s \in Sessions : Exit(s)
  \/ \E s \in Sessions : Start(s)
  \/ Tick

SpecRestart == Init /\ [][NextRestart]_vars

\* variables are added to the profiles
NextAdd ==
  \/ \E s \in Sessions, name \in Names, keyvalues \in KeyValueLists : Add(s, name, keyvalues)
  \/ \E s \in Sessions, name \in Names, lines \in {EnvFile, EnvFile2, EnvFile3} : AddFile(s, name, lines)
  \/ \E s \in Sessions : Discard(s)
  \/ \E name \in EditNames : CreateProfile(name)
  \/ \E name \in EditNames, k \in Keys : RemoveVariable(name, k)

SpecAdd == InitSolo /\ [][NextAdd]_vars

\* the commands on the profile store, each reporting its outcome
NextEdit ==
  \/ \E s \in Sessions, name \in Names : CreateCommand(s, name)
  \/ \E s \in Sessions, name \in Names, keyvalues \in KeyValueLists : Add(s, name, keyvalues)
  \/ \E s \in Sessions, name \in Names, lines \in {EnvFile, EnvFile2, EnvFile3} : AddFile(s, name, lines)
  \/ \E s \in Sessions, name \in Names, k \in Keys : RemoveCommand(s, name, k)
  \/ \E s \in Sessions, name \in Names : ExportProfile(s, name)
  \/ \E s \in Sessions, name \in Names : DeleteCommand(s, name)
  \/ \E s \in Sessions : Discard(s)

SpecEdit == InitSolo /\ [][NextEdit]_vars

\* the operations that run the reaper, with faults in it
NextFault ==
  \/ \E s \in Sessions, fault \in Faults : GetCurrentlyLoadedProfileFaulty(s, fault)
  \/ \E s \in Sessions, fault \in Faults : ListActiveSessionsFaulty(s, fault)
  \/ \E s \in Sessions, name \in Names, fault \in Faults : LoadProfileFaulty(s, name, fault)
  \/ \E s \in Sessions, fault \in Faults : UnloadProfileFaulty(s, fault)
  \/ \E s \in Sessions, name \in Names, fault \in Faults : SwitchProfileFaulty(s, name, fault)
  \/ \E s \in Sessions, first \in Faults, second \in Faults : StatusFaulty(s, first, second)
  \/ \E s \in Sessions : Eval(s)
  \/ \E s \in Sessions : Discard(s)

SpecFault == (Init \/ InitSolo) /\ [][NextFault]_vars

\* the variables a caller hands to saveBackup
BackupSets ==
  {<<>>, <<Var("K1", <<"a">>)>>, <<Var("K2", <<"b", NL, "c">>)>>,
   <<Var("K1", <<"a", EQ, "b">>), Var("K2", <<"\"", "c", "\"">>)>>}

\* the backup store is used directly
NextStore ==
  \/ \E s \in Sessions : GetCurrentlyLoadedProfileOp(s)
  \/ \E s \in Sessions : LoadBackup(s)
  \/ \E s \in Sessions, variables \in BackupSets : SaveBackup(s, variables)
  \/ \E s \in Sessions : ClearBackup(s)
  \/ \E s \in Sessions : ListActiveSessions(s)
  \/ \E s \in Sessions : Discard(s)
  \/ Tick

SpecStore == InitSolo /\ [][NextStore]_vars

-----------------------------------------------------------------------------
(* Vocabulary of the properties *)

FileOf(s) == files[s]

\* the scripts session s evaluated since its backup file was last created
\* from nothing
Period(s) == SubSeq(hist[s].ops, hist[s].start, Len(hist[s].ops))

\* the period of s is exactly these kinds of script, the first one a load
\* evaluated in state EMPTY
PeriodIs(s, kinds) ==
  /\ alive[s]
  /\ out[s].op = "none"
  /\ Len(Period(s)) = Len(kinds)
  /\ \A i \in 1..Len(kinds) : Period(s)[i].kind \in kinds[i]
  /\ hist[s].start <= Len(hist[s].ops)

Unloads == {"unload", "remove"}

\* key k is in e as it was in e0: same value, or absent in both
SameAt(e, e0, k) ==
  IF k \in DOMAIN e0 THEN k \in DOMAIN e /\ e[k] = e0[k] ELSE k \notin DOMAIN e

RECURSIVE Exported(_)
\* the keys the scripts of a period exported
Exported(ops) ==
  IF Len(ops) = 0 THEN {} ELSE VarKeys(ops[1].vars) \cup Exported(Tail(ops))

\* the state of session s after an unload issued and evaluated now
AfterUnload(s) ==
  LET r == UnloadProfileResult(s, profiles, files)
  IN  [ok  |-> r.ok,
       env |-> ExecScript(r.script, [env |-> env[s], file |-> FileOf(s)]).env]

SingleLine(e) == \A k \in DOMAIN e : \A i \in 1..Len(e[k]) : e[k][i] # NL

\* session s issues a generator command in this step
Issues(s, op) == out[s].op = "none" /\ out'[s].op = op

\* session s evaluates the script it was given in this step
Evaluates(s) == out[s].ok /\ Len(hist'[s].ops) = Len(hist[s].ops) + 1

\* in this step the only backup files that change are files of closed
\* terminals, past the grace window, removed by the reaper run of session s
OnlyOrphansReaped(s) ==
  \A f \in Sessions :
    \/ files'[f] = files[f]
    \/ f # s /\ ~alive[f] /\ files[f].old /\ ~files'[f].exists

-----------------------------------------------------------------------------
(* C1: with the profile store untouched, evaluating the script of load(P)  *)
(* in a session without backup file and then the script of unload() leaves *)
(* the environment as it was before the load and no backup file.           *)
C1_RoundTrip ==
  \A s \in Sessions :
    PeriodIs(s, <<{"load"}, Unloads>>) /\ edits = 0
      => env[s] = hist[s].base /\ ~FileOf(s).exists

(* C2: after an unload script is evaluated, every key that a load, reload  *)
(* or switch script of the period exported is back at its value, or its    *)
(* absence, from before the load, whatever edits of the store came in      *)
(* between.  Stated for profiles not named "unknown" and for original      *)
(* values of one line.                                                     *)
C2_NothingLeftMutated ==
  \A s \in Sessions :
    /\ alive[s]
    /\ Len(Period(s)) >= 2
    /\ Period(s)[1].kind = "load"
    /\ Period(s)[Len(Period(s))].kind \in Unloads
    /\ \A i \in 1..Len(Period(s)) : Period(s)[i].to # UNKNOWN
    /\ SingleLine(hist[s].base)
    => \A k \in Exported(Period(s)) : SameAt(env[s], hist[s].base, k)

(* C3: with the profile store untouched, load(P) evaluated twice ends in   *)
(* the same environment and the same backup file content as load(P)        *)
(* evaluated once.                                                         *)
C3_ReloadIdempotent ==
  \A s \in Sessions :
    PeriodIs(s, <<{"load"}, {"reload"}>>) /\ edits = 0
      => /\ env[s] = hist[s].snap.env
         /\ FileOf(s).lines = hist[s].snap.lines

(* C4: after load(P), an edit of P and the reload, the environment holds   *)
(* the current value of every key of P, the session is still LOADED(P),    *)
(* and an unload returns every key P had at the load or at the reload to   *)
(* its state from before the load.  Stated for profiles not named          *)
(* "unknown" and for original values of one line.                          *)
C4_ReloadRefreshesEdited ==
  \A s \in Sessions :
    /\ PeriodIs(s, <<{"load"}, {"reload"}>>)
    /\ Period(s)[1].to # UNKNOWN
    /\ SingleLine(hist[s].base)
    /\ profiles[Period(s)[2].to] = Profile(Period(s)[2].vars)
    => /\ \A k \in VarKeys(Period(s)[2].vars) :
            k \in DOMAIN env[s] /\ env[s][k] = ValueOf(Period(s)[2].vars, k)
       /\ ProfileInFile(s, files) = Period(s)[1].to
       /\ AfterUnload(s).ok
       /\ \A k \in Exported(Period(s)) : SameAt(AfterUnload(s).env, hist[s].base, k)

(* C5: with the profile store untouched, after load(A) and switch(B) the   *)
(* session is LOADED(B), the keys only A contains are back at their state  *)
(* from before the load, and an unload restores the environment from       *)
(* before A was loaded.                                                    *)
C5_SwitchRestores ==
  \A s \in Sessions :
    PeriodIs(s, <<{"load"}, {"switch"}>>) /\ edits = 0
      => /\ ProfileInFile(s, files) = Period(s)[2].to
         /\ \A k \in VarKeys(Period(s)[1].vars) \ VarKeys(Period(s)[2].vars) :
              SameAt(env[s], hist[s].base, k)
         /\ AfterUnload(s).ok
         /\ AfterUnload(s).env = hist[s].base

-----------------------------------------------------------------------------
\* the session is LOADED(other) and target is a stored profile other than it
Conflict(s, target) ==
  /\ Stored(profiles, target)
  /\ ~Falsy(ProfileInFile(s, files))
  /\ ProfileInFile(s, files) # target

\* what the failing load leaves alone, the backup files aside
ConflictRejected(s, target) ==
  /\ ~out'[s].ok
  /\ out'[s].err = "AlreadyLoaded"
  /\ out'[s].name = ProfileInFile(s, files)
  /\ out'[s].arg = target
  /\ out'[s].script = <<>>
  /\ profiles' = profiles
  /\ env' = env
  /\ ProfileInFile(s, files') = ProfileInFile(s, files)

(* C6 as claimed: a conflicting load fails with the already-loaded error   *)
(* and leaves the backup files of every session unchanged.                 *)
C6_ConflictNoSideEffect ==
  [][\A s \in Sessions, target \in Names :
       Issues(s, "load") /\ out'[s].arg = target /\ Conflict(s, target)
         => ConflictRejected(s, target) /\ files' = files]_vars

(* C6 as amended: a conflicting load fails with the already-loaded error   *)
(* that names the loaded profile and the target, returns no script, and    *)
(* leaves the profile store, the environment, the session's loaded profile *)
(* and every backup file unchanged, except that its reaper run removes the *)
(* backup files of closed terminals that are past the grace window.        *)
C6_ConflictRejected ==
  [][\A s \in Sessions, target \in Names :
       Issues(s, "load") /\ out'[s].arg = target /\ Conflict(s, target)
         => ConflictRejected(s, target) /\ OnlyOrphansReaped(s)]_vars

\* a conflicting load of a profile was rejected while another one was loaded
C6_Witness ==
  \E s \in Sessions :
    /\ out[s].op = "load"
    /\ out[s].err = "AlreadyLoaded"
    /\ out[s].name \in Names \ {out[s].arg}
    /\ ProfileInFile(s, files) = out[s].name

\* what the failing unload leaves alone, the backup files aside
NothingLoadedRejected(s) ==
  /\ ~out'[s].ok
  /\ out'[s].err = "NothingLoaded"
  /\ out'[s].script = <<>>
  /\ profiles' = profiles
  /\ env' = env

(* C7 as claimed: unload in state EMPTY fails with the nothing-loaded      *)
(* error and leaves every backup file unchanged.                           *)
C7_EmptyUnloadNoSideEffect ==
  [][\A s \in Sessions :
       Issues(s, "unload") /\ ~FileOf(s).exists
         => NothingLoadedRejected(s) /\ files' = files]_vars

(* C7 as amended: unload in state EMPTY fails with the nothing-loaded      *)
(* error, returns no script, and leaves the profile store, the environment *)
(* and every backup file unchanged, except that its reaper run removes the *)
(* backup files of closed terminals that are past the grace window.        *)
C7_EmptyUnloadRejected ==
  [][\A s \in Sessions :
       Issues(s, "unload") /\ ~FileOf(s).exists
         => NothingLoadedRejected(s) /\ OnlyOrphansReaped(s) /\ ~FileOf(s)'.exists]_vars

\* an unload was rejected in a session without backup file
C7_Witness ==
  \E s \in Sessions :
    out[s].op = "unload" /\ out[s].err = "NothingLoaded" /\ ~FileOf(s).exists

(* C8: when the session's backup file exists without a marker line, unload *)
(* succeeds, reports the profile "unknown" and returns the removal of the  *)
(* backup file as its whole script; evaluating it leaves the session EMPTY *)
(* and the environment unchanged.                                          *)
C8_UnknownUnload ==
  [][\A s \in Sessions :
       FileOf(s).exists /\ ~HasMarker(FileOf(s))
         => /\ Issues(s, "unload")
                 => out'[s].ok /\ out'[s].name = UNKNOWN /\ out'[s].script = <<Rm>>
            /\ Evaluates(s) /\ out[s].op = "unload"
                 => /\ ~FileOf(s)'.exists
                    /\ ProfileInFile(s, files') = NULL
                    /\ env'[s] = env[s]]_vars

\* a session that started with a backup file without marker has evaluated
\* its unload script
C8_Witness ==
  \E s \in Sessions :
    /\ alive[s]
    /\ Len(hist[s].ops) = 1
    /\ hist[s].start = 1
    /\ hist[s].ops[1].kind = "remove"
    /\ ~FileOf(s).exists
    /\ env[s] = hist[s].base

(* C9: whenever the backup file of a session exists, unload() returns a    *)
(* script, and evaluating the script removes the backup file.              *)
C9_UnloadAvailable ==
  \A s \in Sessions :
    alive[s] /\ out[s].op = "none" /\ FileOf(s).exists
      => LET r == UnloadProfileResult(s, profiles, files)
         IN  /\ r.ok
             /\ ~ExecScript(r.script, [env |-> env[s], file |-> FileOf(s)]).file.exists

-----------------------------------------------------------------------------
\* some live session has profile name loaded: its backup file carries the
\* marker for name
LoadedSomewhere(name) ==
  \E s \in Sessions : alive[s] /\ HasMarker(files[s]) /\ ProfileInFile(s, files) = name

(* C11: a profile whose marker is in the backup file of some live session  *)
(* is not deleted: no step takes it out of the store.                      *)
C11_DeleteRejectedWhileLoaded ==
  [][\A name \in Names :
       LoadedSomewhere(name) /\ profiles[name].exists => profiles'[name].exists]_vars

-----------------------------------------------------------------------------
\* the position of the marker in the first line of file f when only blanks
\* come before it, 0 when the first line does not start with the marker
MarkerAt(f) ==
  IF ~f.exists \/ Len(f.lines) = 0 THEN 0
  ELSE LET l == f.lines[1]
           m == {i \in 1..Len(l) : l[i] = MARKER /\ \A h \in 1..(i-1) : l[h] \in {" "}}
       IN  IF m = {} THEN 0 ELSE CHOOSE i \in m : TRUE

\* the text a marker line carries after the marker, blanks around it dropped
NameInMarker(f) ==
  LET l == f.lines[1]
      t == SelectSeq(SubSeq(l, MarkerAt(f) + 1, Len(l)), LAMBDA x : x # " ")
  IN  IF Len(t) = 0 THEN "" ELSE t[1]

-----------------------------------------------------------------------------
\* the backup lines a load of the variables vs writes in environment e: one
\* line KEY=VALUE for each key of vs that is set in e, in the order of vs
ExpectedBackup(vs, e) ==
  LET set == SelectSeq(vs, LAMBDA x : x.key \in DOMAIN e)
  IN  [i \in 1..Len(set) |-> <<set[i].key, EQ>> \o e[set[i].key]]

\* after a load evaluated in state EMPTY: the backup file of s is the marker
\* line and the expected lines, the environment holds the profile's values
\* and the session is LOADED(P)
FreshlyLoaded(s) ==
  LET e == Period(s)[1]
  IN  /\ FileOf(s).exists
      /\ FileOf(s).lines = <<MarkerLine(e.to)>> \o ExpectedBackup(e.vars, hist[s].base)
      /\ \A k \in VarKeys(e.vars) :
           k \in DOMAIN env[s] /\ env[s][k] = ValueOf(e.vars, k)
      /\ \A k \in DOMAIN hist[s].base \ VarKeys(e.vars) :
           k \in DOMAIN env[s] /\ env[s][k] = hist[s].base[k]
      /\ GetCurrentlyLoadedProfile(s, files) = e.to

(* C13: from EMPTY, after the script of load(P) is evaluated the backup    *)
(* file is the marker line naming P followed by exactly one KEY=VALUE line *)
(* for each key of P that was set before, holding its value from before,   *)
(* and no other line; the environment holds P's value for every key of P   *)
(* and the session is LOADED(P).                                           *)
C13_FreshLoad ==
  \A s \in Sessions : PeriodIs(s, <<{"load"}>>) => FreshlyLoaded(s)

-----------------------------------------------------------------------------
\* the state of the shell of session s after it evaluates script
After(s, script) == ExecScript(script, [env |-> env[s], file |-> FileOf(s)])

-----------------------------------------------------------------------------
(* C15: the id the generator computes and the id in the path the emitted   *)
(* shell expression resolves to are the same, whatever terminal variables  *)
(* are unset, empty or set.                                                *)
C15_SameBackupFile ==
  \A s \in Sessions : out[s].op = "session" => out[s].sid = out[s].path

\* variable k is available in environment e: set to a text that is not empty
Available(e, k) == k \in DOMAIN e /\ e[k] # <<>>

\* p is the terminal type term up to its first hyphen
UpToFirstHyphen(p, term) ==
  /\ Len(p) <= Len(term)
  /\ p = SubSeq(term, 1, Len(p))
  /\ \A i \in 1..Len(p) : p[i] # HY
  /\ Len(p) < Len(term) => term[Len(p) + 1] = HY

\* sid is <pid>-<level>-<tag> or, with an empty tag, <pid>-<level>
IdIs(sid, pid, level, tag) ==
  sid = <<pid, HY>> \o level \o (IF tag = <<>> THEN <<>> ELSE <<HY>> \o tag)

\* the nesting level of the id: SHLVL, or 1 when SHLVL is not available
LevelOf(e) == IF Available(e, "SHLVL") THEN e["SHLVL"] ELSE <<"1">>

\* the id of session s follows the order terminal program, SSH, terminal
\* type; rest is the tag when none of the three is available
TagRule(s, rest) ==
  LET e == env[s]
      sid == out[s].sid
  IN  IF Available(e, "TERM_PROGRAM")
        THEN IdIs(sid, ShellPid(s), LevelOf(e), e["TERM_PROGRAM"])
      ELSE IF Available(e, "SSH_TTY")
        THEN IdIs(sid, ShellPid(s), LevelOf(e), <<"ssh">>)
      ELSE IF Available(e, "TERM")
        THEN \E n \in 0..Len(e["TERM"]) :
               /\ UpToFirstHyphen(SubSeq(e["TERM"], 1, n), e["TERM"])
               /\ sid = <<ShellPid(s), HY>> \o LevelOf(e) \o <<HY>> \o SubSeq(e["TERM"], 1, n)
      ELSE IdIs(sid, ShellPid(s), LevelOf(e), rest)

-----------------------------------------------------------------------------
\* in this step no script is evaluated: a backup file that disappears was
\* deleted by a run of the reaper
ReaperDeletes(f) == files[f].exists /\ ~files'[f].exists /\ hist' = hist

(* C17: a run of the reaper deletes a backup file only if it is not the    *)
(* file of the calling session, it was modified at least five minutes ago  *)
(* and no live process has the pid its session id starts with.             *)
C17_ReaperSafety ==
  [][\A f \in Sessions :
       ReaperDeletes(f)
         => /\ \A s \in Sessions : CanRun(s) => f # GetSessionId(s)
            /\ files[f].old
            /\ \A p \in Sessions : alive[p] => ShellPid(p) # SessionTokens(f)[1]]_vars

\* the backup file a terminal left behind when it was closed with a profile
\* loaded is gone: only the reaper of the other session can have deleted it
C17_Witness ==
  \E f \in Sessions :
    /\ ~alive[f]
    /\ Len(hist[f].ops) > 0
    /\ hist[f].ops[Len(hist[f].ops)].kind = "load"
    /\ ~files[f].exists
    /\ \E s \in Sessions : alive[s]

-----------------------------------------------------------------------------
\* the operations of the backup store
StoreOps ==
  {"getCurrentlyLoadedProfile", "loadBackup", "saveBackup", "clearBackup", "listActiveSessions"}

\* an operation of the backup store completes in session s in this step
Completes(s, ops) == out[s].op = "none" /\ out'[s].op \in ops

\* f is the backup file of a closed terminal, past the grace window
Orphan(f, F) == F[f].exists /\ F[f].old /\ ~alive[f]

(* C18: when an operation of the backup store (getCurrentlyLoadedProfile,  *)
(* loadBackup, saveBackup, clearBackup, listActiveSessions) completes in a *)
(* session, no backup file is left that belongs to another session, is     *)
(* older than the grace window and whose shell has exited.                 *)
C18_ReaperProgress ==
  [][\A s \in Sessions :
       Completes(s, StoreOps)
         => \A f \in Sessions \ {GetSessionId(s)} : ~Orphan(f, files')]_vars

-----------------------------------------------------------------------------
\* the positions at which key k is given
GivenAt(given, k) == {i \in 1..Len(given) : given[i].key = k}

\* the keys given
GivenKeys(given) == {given[i].key : i \in 1..Len(given)}

\* the last value given for key k
LastGiven(given, k) ==
  given[CHOOSE i \in GivenAt(given, k) : \A j \in GivenAt(given, k) : j <= i].value

\* after holds every given key once with its last value, and every other
\* key of before with the value it had
LastWins(before, after, given) ==
  /\ \A i, j \in 1..Len(after) : after[i].key = after[j].key => i = j
  /\ VarKeys(after) = VarKeys(before) \cup GivenKeys(given)
  /\ \A k \in GivenKeys(given) : ValueOf(after, k) = LastGiven(given, k)
  /\ \A k \in VarKeys(before) \ GivenKeys(given) : ValueOf(after, k) = ValueOf(before, k)

(* C19: after an add command or an import of a file that gives some key    *)
(* several times, the profile holds every given key once with the last     *)
(* value given for it, and the keys not given keep their values.           *)
C19_LastValueWins ==
  [][\A s \in Sessions :
       Issues(s, "add") /\ out'[s].kind = "added"
         => LastWins(profiles[out'[s].arg].vars, profiles'[out'[s].arg].vars,
                     out'[s].vars)]_vars

\* an add gave a key twice with different values, beside another key
C19_Witness ==
  \E s \in Sessions :
    /\ out[s].kind = "added"
    /\ \E i, j \in 1..Len(out[s].vars) :
         /\ i < j
         /\ out[s].vars[i].key = out[s].vars[j].key
         /\ out[s].vars[i].value # out[s].vars[j].value
    /\ Cardinality(GivenKeys(out[s].vars)) > 1
    /\ \A k \in GivenKeys(out[s].vars) :
         ValueOf(profiles[out[s].arg].vars, k) = LastGiven(out[s].vars, k)

-----------------------------------------------------------------------------
\* the commands that print a script
Generators == {"load", "unload", "switch"}

-----------------------------------------------------------------------------
\* the commands that only read the profile store
Readers == {"load", "unload", "switch", "status", "list", "export"}

(* C21: load, unload, switch, status, list and export, whether they        *)
(* succeed or fail, leave every stored profile with the same name and the  *)
(* same variables as before the call.                                      *)
C21_ReadersKeepStore ==
  [][(\E s \in Sessions, op \in Readers : Issues(s, op)) => profiles' = profiles]_vars

\* a reader of each kind has answered, one of them with an error
C21_Witness ==
  \E s \in Sessions :
    /\ out[s].op \in Readers
    /\ out[s].err = "ProfileNotFound"
    /\ \E n \in Names : profiles[n].exists /\ Len(profiles[n].vars) > 0

-----------------------------------------------------------------------------
\* the keys of the model that are no identifiers: empty, with a blank, with
\* a shell metacharacter
IdentifierLike(k) == k \notin {"", "MY KEY", "K1;id"}

(* C22: no profile ever stores a key that is empty, contains whitespace or *)
(* contains a shell metacharacter.                                         *)
C22_KeysAreIdentifiers ==
  \A n \in Names : profiles[n].exists => \A k \in VarKeys(profiles[n].vars) : IdentifierLike(k)

-----------------------------------------------------------------------------
\* the profile file f shows: the name in its marker, "unknown" without one
ShownIn(f) == IF MarkerAt(f) > 0 THEN NameInMarker(f) ELSE UNKNOWN

\* report r of status, asked in session id, agrees with the directory F
StatusAgrees(r, id, F) ==
  /\ r.profileName # NULL <=> F[id].exists
  /\ F[id].exists => r.profileName = ShownIn(F[id])
  /\ \A x \in r.otherSessions : x.sessionId # id
  /\ \A f \in Sessions \ {id} :
       F[f].exists => [sessionId |-> f, profileName |-> ShownIn(F[f])] \in r.otherSessions
  /\ r.totalSessions = Cardinality(r.otherSessions) + (IF r.profileName # NULL THEN 1 ELSE 0)

(* C23: the report of status names a profile for the calling session iff   *)
(* the session has a backup file, and then the profile that file shows;    *)
(* otherSessions leaves the calling session out and holds every other      *)
(* session that has a backup file, with its profile; totalSessions is the  *)
(* number of otherSessions, plus one when the calling session has a        *)
(* profile.                                                                *)
C23_StatusConsistent ==
  [][\A s \in Sessions :
       Issues(s, "status") => StatusAgrees(out'[s].report, GetSessionId(s), files')]_vars

-----------------------------------------------------------------------------
\* the sessions whose backup file in F carries the marker of profile name
MarkedFor(name, F) == {f \in Sessions : MarkerAt(F[f]) > 0 /\ NameInMarker(F[f]) = name}

\* list L is the stored profiles of P, by name, with the sessions that
\* directory F shows them loaded in
ListAgrees(L, P, F) ==
  /\ {L[i].name : i \in 1..Len(L)} = {n \in Names : P[n].exists}
  /\ \A i, j \in 1..Len(L) : i < j => NameBefore(L[i].name, L[j].name)
  /\ \A i \in 1..Len(L) :
       /\ L[i].loadedInSessions = MarkedFor(L[i].name, F)
       /\ L[i].isLoaded <=> MarkedFor(L[i].name, F) # {}
       /\ L[i].variableCount = Cardinality(VarKeys(P[L[i].name].vars))

(* C24: list returns one entry per stored profile, ordered by name, where  *)
(* isLoaded holds iff the backup file of some session carries the marker   *)
(* of the profile, loadedInSessions is the set of those sessions, and      *)
(* variableCount is the number of variables of the profile.                *)
C24_ListConsistent ==
  [][\A s \in Sessions :
       Issues(s, "list") => ListAgrees(out'[s].report.list, profiles, files')]_vars

-----------------------------------------------------------------------------
(* C25: cleanupAllData completes without error whatever the backup state   *)
(* is (no backup file, a file without marker, a marker naming a profile    *)
(* that does not exist), and afterwards no profile and no backup file      *)
(* exists, so every session reads no loaded profile.                       *)
C25_CleanupCompletes ==
  [][\A s \in Sessions :
       Issues(s, "cleanup")
         => /\ out'[s].err = ""
            /\ \A n \in Names : ~profiles'[n].exists
            /\ \A f \in Sessions : ~files'[f].exists
            /\ \A t \in Sessions : alive[t] => GetCurrentlyLoadedProfile(t, files') = NULL]_vars

\* the cleanup has run in a session whose marker named a profile that was
\* not stored, so that its unload failed
C25_Witness ==
  \E s \in Sessions :
    /\ out[s].op = "cleanup"
    /\ out[s].arg \notin {NULL, UNKNOWN, ""}
    /\ out[s].name = ""
    /\ \A n \in Names : ~profiles[n].exists
    /\ \A f \in Sessions : ~files[f].exists

-----------------------------------------------------------------------------
\* session s issues command op on a profile that is not stored
OnMissing(s, op) == Issues(s, op) /\ ~profiles[out'[s].arg].exists

\* the command of session s fails with error err and the store is as before
FailsWith(s, err) == out'[s].err = err /\ profiles' = profiles

\* the failures of create, add, remove and export
EditFailures(s) ==
  /\ Issues(s, "create") /\ profiles[out'[s].arg].exists
       => FailsWith(s, "ProfileAlreadyExists")
  /\ OnMissing(s, "add") /\ out'[s].err # "InvalidFormat" => FailsWith(s, "ProfileNotFound")
  /\ OnMissing(s, "remove") => FailsWith(s, "ProfileNotFound")
  /\ OnMissing(s, "export") => FailsWith(s, "ProfileNotFound")
  /\ (/\ Issues(s, "remove")
      /\ profiles[out'[s].arg].exists
      /\ out'[s].name \notin VarKeys(profiles[out'[s].arg].vars))
       => FailsWith(s, "VariableNotFound")

(* C26 as claimed: create of a stored name, add, import, remove or export  *)
(* on a profile that is not stored, remove of a key the profile does not   *)
(* hold, and delete of a profile that is not stored each fail with their   *)
(* error (already exists, profile not found, variable not found) and leave *)
(* the store as it was.                                                    *)
C26_FailureKeepsStore ==
  [][\A s \in Sessions :
       /\ EditFailures(s)
       /\ OnMissing(s, "delete") => FailsWith(s, "ProfileNotFound")]_vars

(* C26 as amended: as claimed, except that delete of a profile that is not *)
(* stored fails with the error of a loaded profile when the backup file of *)
(* the calling session shows that name as loaded.                          *)
C26_FailedEditKeepsStore ==
  [][\A s \in Sessions :
       /\ EditFailures(s)
       /\ OnMissing(s, "delete")
            => FailsWith(s, IF files[s].exists /\ ShownIn(files[s]) = out'[s].arg
                              THEN "ProfileLoaded" ELSE "ProfileNotFound")]_vars

\* a delete of a profile that is not stored has failed with the error of a
\* loaded profile, and a stored profile is left
C26_Witness ==
  \E s \in Sessions :
    /\ out[s].op = "delete"
    /\ out[s].err = "ProfileLoaded"
    /\ ~profiles[out[s].arg].exists
    /\ \E n \in Names : profiles[n].exists

-----------------------------------------------------------------------------
\* the map a list of variables stands for
AsMap(vs) == {<<k, ValueOf(vs, k)>> : k \in VarKeys(vs)}

(* C27: loadBackup called after saveBackup(variables) in the same session  *)
(* returns a map equal to variables, the empty map after the file was      *)
(* removed for the empty map; loadBackup never returns a marker line as a  *)
(* variable.                                                               *)
C27_BackupRoundTrip ==
  [][\A s \in Sessions :
       /\ Completes(s, {"saveBackup"})
            => /\ AsMap(LoadBackupResult(s, files')) = AsMap(out'[s].vars)
               /\ out'[s].vars = <<>> => ~files'[SessionBackupFilePath(s)].exists
       /\ Completes(s, {"loadBackup"})
            => \A i \in 1..Len(out'[s].vars) : out'[s].vars[i].key # MARKER]_vars

-----------------------------------------------------------------------------
(* C28: load(name) and switch(name) for a profile that is not stored fail  *)
(* with the profile-not-found error whatever the session has loaded        *)
(* (nothing, another profile, a file without marker), print no script and  *)
(* leave the backup file of the session as it was.                         *)
C28_MissingProfileRejected ==
  [][\A s \in Sessions :
       (\E op \in {"load", "switch"} : Issues(s, op)) /\ ~Stored(profiles, out'[s].arg)
         => /\ out'[s].err = "ProfileNotFound"
            /\ ~out'[s].ok
            /\ out'[s].script = <<>>
            /\ files'[GetSessionBackupPath(s)] = files[GetSessionBackupPath(s)]]_vars

\* a load of a profile that is not stored was rejected in a session that
\* has another profile loaded
C28_Witness ==
  \E s \in Sessions :
    /\ out[s].op = "load"
    /\ out[s].err = "ProfileNotFound"
    /\ ~Stored(profiles, out[s].arg)
    /\ MarkerAt(files[s]) > 0
    /\ NameInMarker(files[s]) # out[s].arg

-----------------------------------------------------------------------------
\* in script every step of kind a comes before every step of kind b
Precedes(script, a, b) ==
  \A i, j \in 1..Len(script) : script[i].c = a /\ script[j].c = b => i < j

\* the steps of kind a in script
StepsOf(script, a) == {i \in 1..Len(script) : script[i].c = a}

(* C29: in every emitted script the marker write comes before every backup *)
(* append and every backup append before every export; every restore or    *)
(* unset step comes before the marker write; a script with a marker write  *)
(* has exactly one; and a script of unload removes the backup file in its  *)
(* last step and nowhere else.                                             *)
C29_StepOrder ==
  \A s \in Sessions :
    out[s].ok =>
      LET script == out[s].script
      IN  /\ Precedes(script, "marker", "backup")
          /\ Precedes(script, "backup", "export")
          /\ Precedes(script, "restore", "marker")
          /\ out[s].op \in {"load", "switch"} => Cardinality(StepsOf(script, "marker")) = 1
          /\ out[s].op = "unload" => StepsOf(script, "rm") = {Len(script)}
          /\ out[s].op # "unload" => StepsOf(script, "rm") = {}

\* a script of switch with restores, the marker write, backups and exports
C29_Witness ==
  \E s \in Sessions :
    /\ out[s].ok
    /\ out[s].op = "switch"
    /\ \A c \in {"restore", "marker", "backup", "export"} : StepsOf(out[s].script, c) # {}

-----------------------------------------------------------------------------
\* the shell of session s has evaluated no script of load or switch since
\* it started
Fresh(s) ==
  /\ alive[s]
  /\ \A i \in 1..Len(hist[s].ops) :
       hist[s].ops[i].kind \in {"load", "reload", "switch"}
         => \E j \in (i+1)..Len(hist[s].ops) : hist[s].ops[j].kind = "start"

(* C30: a shell that has evaluated no script of load or switch since it    *)
(* started reads no loaded profile, also when a backup file with its       *)
(* session id was left by a shell that has exited, and a script of unload  *)
(* printed for it restores or unsets no variable.                          *)
C30_NoStaleState ==
  [][\A s \in Sessions :
       Fresh(s) => /\ ProfileInFile(s, files) = NULL
                   /\ Issues(s, "unload") => StepsOf(out'[s].script, "restore") = {}]_vars

-----------------------------------------------------------------------------
\* the backup file of session f changes in this step
FileChanges(f) == files'[f] # files[f]

\* the change is made from inside session f: its shell evaluates a script it
\* was given, or it removes all data
ByOwner(f) == Evaluates(f) \/ Issues(f, "cleanup")

\* the change is the passing of the grace window, the content stays
Aged(f) == files[f].exists /\ files'[f] = [files[f] EXCEPT !.old = TRUE]

\* the change is the removal of the file of a closed terminal, past the
\* grace window, by a command of another session
Reaped(f) ==
  /\ ~alive[f]
  /\ files[f].old
  /\ ~files'[f].exists
  /\ hist' = hist
  /\ \E s \in Sessions \ {f} : alive[s] /\ out[s].op = "none" /\ out'[s].op # "none"

\* the change is the removal of the configuration directory
RemovedWithAllData(f) == ~files'[f].exists /\ \E s \in Sessions : Issues(s, "cleanup")

\* the file the generator reads for a session is the file its scripts write
OneFilePerSession ==
  \A s \in Sessions : alive[s] => SessionBackupFilePath(s) = GetSessionBackupPath(s)

(* C31 as claimed: the backup file of a session is created, truncated,     *)
(* appended to or removed only from inside that session (its shell         *)
(* evaluates a script it was given, or it removes all data); the file a    *)
(* session reads is the one file its scripts write; and the only step of   *)
(* another session that removes the file is a run of the orphan reaper.    *)
C31_OnlyOwnerOrReaper ==
  [][/\ OneFilePerSession
     /\ \A f \in Sessions :
          FileChanges(f) => ByOwner(f) \/ Reaped(f) \/ Aged(f)]_vars

(* C31 as amended: the backup file of a session is created, truncated,     *)
(* appended to or removed only from inside that session; the file a        *)
(* session reads is the one file its scripts write; and the only steps of  *)
(* another session that remove the file are a run of the orphan reaper and *)
(* cleanupAllData, which removes the configuration directory with the      *)
(* backup files of every session.                                          *)
C31_OnlyOwnerReaperOrCleanup ==
  [][/\ OneFilePerSession
     /\ \A f \in Sessions :
          FileChanges(f)
            => ByOwner(f) \/ Reaped(f) \/ Aged(f) \/ RemovedWithAllData(f)]_vars

\* a session removed all data while the terminal of another session, which
\* had evaluated the script of a load, was open: that session's file is gone
C31_Witness ==
  \E s \in Sessions, f \in Sessions :
    /\ f # s
    /\ alive[f]
    /\ out[s].op = "cleanup"
    /\ Len(hist[f].ops) > 0
    /\ hist[f].ops[Len(hist[f].ops)].kind = "load"
    /\ ~files[f].exists

-----------------------------------------------------------------------------
\* the backup file of session s exists without a marker line
UnknownState(s) == FileOf(s).exists /\ ~HasMarker(FileOf(s))

\* the text of a backup file: its lines joined by newlines
FileText(f) == JoinLines(f.lines)

\* environment e holds the value of every variable of vs
Holds(e, vs) == \A k \in VarKeys(vs) : k \in DOMAIN e /\ e[k] = ValueOf(vs, k)

(* C32: when the backup file of the session has no marker line, a switch   *)
(* to a stored target reports from = "unknown" and returns exactly the     *)
(* marker step for the target, the backup step of every key of the target  *)
(* and the export of every variable of the target, with no restore or      *)
(* unset step; after the script is evaluated the session is LOADED(target),*)
(* the backup file is the marker line followed by the values the target's  *)
(* keys had before the evaluation, and the environment holds the target's  *)
(* values.                                                                 *)
C32_SwitchFromUnknown ==
  [][\A s \in Sessions :
       UnknownState(s)
         => /\ Issues(s, "switch") /\ Stored(profiles, out'[s].arg)
                 => /\ out'[s].ok
                    /\ out'[s].name = UNKNOWN
                    /\ out'[s].rvars = <<>>
                    /\ StepsOf(out'[s].script, "restore") = {}
                    /\ out'[s].script = GenerateLoadCommands(out'[s].arg, profiles[out'[s].arg].vars)
            /\ Evaluates(s) /\ out[s].op = "switch"
                 => /\ ProfileInFile(s, files') = out[s].arg
                    /\ FileText(files'[s]) =
                         JoinLines(<<MarkerLine(out[s].arg)>> \o ExpectedBackup(out[s].vars, env[s]))
                    /\ Holds(env'[s], out[s].vars)]_vars

-----------------------------------------------------------------------------
\* the value the backup file f holds for key k, as a restore step reads it
BackedUp(k, f) == Capture(Grep(k, f))

\* the backup file f holds for every key only the value the key had in e
OnlyOriginals(f, e) ==
  \A k \in Keys : Len(Grep(k, f)) > 0 => k \in DOMAIN e /\ BackedUp(k, f) = e[k]

\* environment e holds for no key of vs the value vs gives it, unless the
\* key had that value in e0
NoneLeftFrom(e, vs, e0) ==
  \A k \in VarKeys(vs) :
    k \in DOMAIN e /\ e[k] = ValueOf(vs, k) => k \in DOMAIN e0 /\ e0[k] = e[k]

(* C33: after load(A) evaluated in state EMPTY and switch(B) evaluated in  *)
(* state LOADED(A), the backup file holds for every key only the value the *)
(* variable had before A was loaded, also when A was edited or deleted in  *)
(* the store in between; and an unload issued then leaves no key of A at   *)
(* the value A had set, unless the key had that value before A was loaded. *)
(* Stated for original values of one line.                                 *)
C33_SwitchKeepsOriginals ==
  \A s \in Sessions :
    PeriodIs(s, <<{"load"}, {"switch"}>>) /\ SingleLine(hist[s].base)
      => /\ OnlyOriginals(FileOf(s), hist[s].base)
         /\ AfterUnload(s).ok
              => NoneLeftFrom(AfterUnload(s).env, Period(s)[1].vars, hist[s].base)

-----------------------------------------------------------------------------
\* the backup file of session s carries the marker for the stored profile p
MarkedLoaded(s, p) ==
  /\ alive[s]
  /\ HasMarker(FileOf(s))
  /\ ProfileInFile(s, files) = p
  /\ Stored(profiles, p)

(* C34: for every name p of a stored profile, "unknown" included, a        *)
(* session whose backup file carries the marker for p is LOADED(p): its    *)
(* unload returns the restore-or-unset step of every key of p followed by  *)
(* the removal of the backup file, never the removal alone, and its load   *)
(* of a stored profile other than p is rejected as already loaded.         *)
C34_MarkerMeansLoaded ==
  [][\A s \in Sessions, p \in Names :
       MarkedLoaded(s, p)
         => /\ Issues(s, "unload")
                 => /\ out'[s].ok
                    /\ out'[s].kind = "unload"
                    /\ out'[s].name = p
                    /\ out'[s].rvars = profiles[p].vars
                    /\ out'[s].script = UnloadCommands(profiles[p].vars)
            /\ Issues(s, "load") /\ out'[s].arg # p /\ Stored(profiles, out'[s].arg)
                 => ~out'[s].ok /\ out'[s].err = "AlreadyLoaded"]_vars

-----------------------------------------------------------------------------
\* session s issues operation op in this step and a run of its reaper fails
IssuesFaulty(s, op) ==
  Issues(s, op) /\ \E i \in 1..Len(out'[s].faults) : out'[s].faults[i] # "none"

\* the directory that holds the backup file of session s alone: a reaper
\* has nothing to do in it
Alone(s, F) == [f \in Sessions |-> IF f = GetSessionId(s) THEN F[f] ELSE NoFile]

\* result a is result b, the faults met aside
SameResult(a, b) == [a EXCEPT !.faults = <<>>] = [b EXCEPT !.faults = <<>>]

\* load, unload, switch and getCurrentlyLoadedProfile of session s return in
\* this step what they return when no reaper runs, whatever fails in it
OwnFileResults(s) ==
  /\ IssuesFaulty(s, "getCurrentlyLoadedProfile")
       => out'[s].err = "" /\ out'[s].name = ProfileInFile(s, files)
  /\ IssuesFaulty(s, "load")
       => SameResult(out'[s], LoadProfileResult(s, out'[s].arg, profiles, Alone(s, files)))
  /\ IssuesFaulty(s, "unload")
       => SameResult(out'[s], UnloadProfileResult(s, profiles, Alone(s, files)))
  /\ IssuesFaulty(s, "switch")
       => SameResult(out'[s], SwitchProfileResult(s, out'[s].arg, profiles, Alone(s, files)))

\* listActiveSessions and status of session s return in this step, without
\* error, the sessions of the backup files of directory F
Lists(s, F) ==
  /\ IssuesFaulty(s, "listActiveSessions")
       => out'[s].err = "" /\ out'[s].report.otherSessions = ListSessions(F)
  /\ IssuesFaulty(s, "status")
       => /\ out'[s].err = ""
          /\ out'[s].report =
               StatusReport(s, profiles, ProfileInFile(s, files), ListSessions(F))

====
